---------------------------- MODULE Spec2Model ----------------------------
(***************************************************************************)
(* Model of the chinese-dictionary conversion scripts:                     *)
(*   converte_dict.py      permissive pipeline                             *)
(*   get_dict.py           strict pipeline                                 *)
(*   get_translation.py    pipeline with CC-CEDICT translations            *)
(*   generate_json_line.py shard writer                                    *)
(*                                                                         *)
(* Text.  A Python str is a sequence of characters, each character a       *)
(* one-element token.  ASCII characters are themselves ("a", "3", "[").    *)
(* The marked vowels are written base^tone: "a^3" is a-caron, "v^4" is     *)
(* u-diaeresis-grave, "v^0" is the bare u-diaeresis.  "zh1", "zh2" are     *)
(* two Chinese characters, "zh," the full-width comma, " " a blank,        *)
(* "nl" a line feed, "tab" a tab, "dq" and "sq" the double and the single  *)
(* quote.                                                                  *)
(***************************************************************************)
EXTENDS Integers, Sequences, FiniteSets, TLC

VARIABLES
    pc,          \* position of the running script
    syl,         \* pinyin spec: letters of the numeric syllable
    tone,        \* pinyin spec: its tone digit
    dia,         \* pinyin spec: diacritic form (bracketed)
    num,         \* pinyin spec: convert_tone_markers(dia)
    dia2,        \* pinyin spec: diacritic form of num
    cedict,      \* index spec: the lines of the CC-CEDICT file read so far
    parsed,      \* index spec: what parse_cc_cedict_line returned for each
    trans_dict,  \* index spec: load_cc_cedict's dictionary
    query,       \* index spec: <<word, pinyin>> of the last get_translation call
    result,      \* index spec: what that call returned
    norm,        \* entries spec: the normalizer that ran
    rec,         \* entries spec: its source record (a word or an idiom)
    char,        \* entries spec: its source record (a character)
    detail,      \* entries spec: the detail record (characters)
    entry,       \* entries spec: what it returned
    json_lines,  \* loader spec: the lines of the file read so far
    data,        \* loader spec: load_json_lines' list; shard spec: the records
    sh_input,    \* shard spec: what the input file holds
    max_lines,   \* shard spec: max_lines_per_file
    i_done,      \* shard spec: records written so far (the loop's position)
    file_count,  \* shard spec
    line_count,  \* shard spec
    current_file,\* shard spec: index in the name of the open file, 0 for None
    fs,          \* shard spec: the files written, by the index in their name
    variant,     \* convert spec: the script whose convert_data runs
    max_items,   \* convert spec: the cap, 0 for None
    loaded,      \* convert spec: the four lists load_json_lines returned
    cv_i,        \* convert spec: items of the running loop already visited
    converted_data \* convert spec

-----------------------------------------------------------------------------
(* Generic sequence helpers (Python list / str primitives)                 *)

RECURSIVE Flatten(_)
\* "".join(parts) / sum of lists
Flatten(ss) == IF ss = <<>> THEN <<>> ELSE Head(ss) \o Flatten(Tail(ss))

RECURSIVE JoinWith(_, _)
\* sep.join(parts)
JoinWith(sep, ss) ==
    IF ss = <<>> THEN <<>>
    ELSE IF Len(ss) = 1 THEN ss[1]
    ELSE ss[1] \o sep \o JoinWith(sep, Tail(ss))

Range(s) == {s[i] : i \in 1..Len(s)}

\* [Op(x) for x in s]
Map(Op(_), s) == IF s = <<>> THEN <<>> ELSE [i \in 1..Len(s) |-> Op(s[i])]

\* list.index(x): first position of x, 0 when absent (ValueError)
IndexOf(s, x) ==
    IF \E i \in 1..Len(s) : s[i] = x
    THEN CHOOSE i \in 1..Len(s) : s[i] = x /\ \A j \in 1..(i-1) : s[j] # x
    ELSE 0

Digits == {"0", "1", "2", "3", "4", "5", "6", "7", "8", "9"}
Letters == {"a", "b", "c", "d", "e", "f", "g", "h", "i", "j", "k", "l", "m",
            "n", "o", "p", "q", "r", "s", "t", "u", "v", "w", "x", "y", "z"}
BaseVowels == {"a", "e", "i", "o", "u", "v"}
\* the 24 marked vowels and the bare u-diaeresis
Marked == {"a^1", "a^2", "a^3", "a^4", "e^1", "e^2", "e^3", "e^4",
           "i^1", "i^2", "i^3", "i^4", "o^1", "o^2", "o^3", "o^4",
           "u^1", "u^2", "u^3", "u^4", "v^1", "v^2", "v^3", "v^4", "v^0"}
MarkBase(c) == CASE c \in {"a^1", "a^2", "a^3", "a^4"} -> "a"
                 [] c \in {"e^1", "e^2", "e^3", "e^4"} -> "e"
                 [] c \in {"i^1", "i^2", "i^3", "i^4"} -> "i"
                 [] c \in {"o^1", "o^2", "o^3", "o^4"} -> "o"
                 [] c \in {"u^1", "u^2", "u^3", "u^4"} -> "u"
                 [] OTHER -> "v"
MarkTone(c) == CASE c \in {"a^1", "e^1", "i^1", "o^1", "u^1", "v^1"} -> "1"
                 [] c \in {"a^2", "e^2", "i^2", "o^2", "u^2", "v^2"} -> "2"
                 [] c \in {"a^3", "e^3", "i^3", "o^3", "u^3", "v^3"} -> "3"
                 [] c \in {"a^4", "e^4", "i^4", "o^4", "u^4", "v^4"} -> "4"
                 [] OTHER -> "0"
DigitVal(d) == CASE d = "0" -> 0 [] d = "1" -> 1 [] d = "2" -> 2
                 [] d = "3" -> 3 [] d = "4" -> 4 [] d = "5" -> 5
                 [] d = "6" -> 6 [] d = "7" -> 7 [] d = "8" -> 8
                 [] OTHER -> 9

\* re.sub(r'\d', '', s)
StripDigits(s) == SelectSeq(s, LAMBDA c : c \notin Digits)

Whitespace == {" ", "nl", "tab"}

RECURSIVE LStrip(_)
LStrip(s) == IF s # <<>> /\ Head(s) \in Whitespace THEN LStrip(Tail(s)) ELSE s

RECURSIVE RStrip(_)
RStrip(s) == IF s # <<>> /\ s[Len(s)] \in Whitespace
             THEN RStrip(SubSeq(s, 1, Len(s) - 1)) ELSE s

\* str.strip()
Strip(s) == RStrip(LStrip(s))

RECURSIVE FirstFrom(_, _, _)
FirstFrom(s, seps, i) ==
    IF i > Len(s) THEN 0
    ELSE IF s[i] \in seps THEN i
    ELSE FirstFrom(s, seps, i + 1)

\* position of the first character of s that is in seps, 0 when none is
FirstIn(s, seps) == FirstFrom(s, seps, 1)

RECURSIVE SplitOn(_, _, _)
\* str.split(sep, maxsplit) and re.split('[...]', s): a cut at every single
\* separator character, at most maxsplit cuts (-1: no limit)
SplitOn(s, seps, maxsplit) ==
    IF maxsplit = 0 \/ FirstIn(s, seps) = 0 THEN <<s>>
    ELSE <<SubSeq(s, 1, FirstIn(s, seps) - 1)>>
         \o SplitOn(SubSeq(s, FirstIn(s, seps) + 1, Len(s)), seps, maxsplit - 1)

\* str.split(): cut at runs of whitespace, no empty piece
SplitWs(s) == SelectSeq(SplitOn(s, Whitespace, -1), LAMBDA t : t # <<>>)

\* s[1:-1]
Slice1m1(s) == SubSeq(s, 2, Len(s) - 1)

-----------------------------------------------------------------------------
(* get_translation.py: pinyin tools                                        *)

\* one entry of tone_map in convert_tone_markers: marker -> replacement
ToneMarkerReplacement(c) ==
    IF c = "v^0" THEN <<"v">>
    ELSE IF c \in Marked THEN <<MarkBase(c), MarkTone(c)>>
    ELSE <<c>>

\* convert_tone_markers: every marker is replaced where it stands
convert_tone_markers(pinyin) == Flatten(Map(ToneMarkerReplacement, pinyin))

\* tone_map[vowel][tone] of convert_numbered_pinyin
tone_map(vowel, t) ==
    IF t = 0 THEN (IF vowel = "v" THEN "v^0" ELSE vowel)
    ELSE CASE t = 1 -> CASE vowel = "a" -> "a^1" [] vowel = "e" -> "e^1"
                         [] vowel = "i" -> "i^1" [] vowel = "o" -> "o^1"
                         [] vowel = "u" -> "u^1" [] OTHER -> "v^1"
           [] t = 2 -> CASE vowel = "a" -> "a^2" [] vowel = "e" -> "e^2"
                         [] vowel = "i" -> "i^2" [] vowel = "o" -> "o^2"
                         [] vowel = "u" -> "u^2" [] OTHER -> "v^2"
           [] t = 3 -> CASE vowel = "a" -> "a^3" [] vowel = "e" -> "e^3"
                         [] vowel = "i" -> "i^3" [] vowel = "o" -> "o^3"
                         [] vowel = "u" -> "u^3" [] OTHER -> "v^3"
           [] OTHER -> CASE vowel = "a" -> "a^4" [] vowel = "e" -> "e^4"
                         [] vowel = "i" -> "i^4" [] vowel = "o" -> "o^4"
                         [] vowel = "u" -> "u^4" [] OTHER -> "v^4"

RECURSIVE ReplaceUColon(_)
\* pinyin.replace('u:', 'v')
ReplaceUColon(p) ==
    IF Len(p) < 2 THEN p
    ELSE IF p[1] = "u" /\ p[2] = ":" THEN <<"v">> \o ReplaceUColon(Tail(Tail(p)))
    ELSE <<p[1]>> \o ReplaceUColon(Tail(p))

\* the loop's break condition: stop at a vowel unless it is a non-final i
ScanBreaks(c, i, n) == c # "i" \/ i = n

RECURSIVE ScanVowel(_, _, _)
\* the loop "for i, c in enumerate(pinyin)": vp is vowel_pos so far
\* (1-based here, 0 for the code's -1)
ScanVowel(p, i, vp) ==
    IF i > Len(p) THEN vp
    ELSE IF p[i] \in BaseVowels
         THEN IF ScanBreaks(p[i], i, Len(p)) THEN i
              ELSE ScanVowel(p, i + 1, i)
         ELSE ScanVowel(p, i + 1, vp)

vowel_pos(p) == ScanVowel(p, 1, 0)

\* convert_numbered_pinyin(match): letters = group(1), digit = group(2)
\* (<<>> when the optional digit is absent)
convert_numbered_pinyin(letters, digit) ==
    LET t  == IF digit = <<>> THEN 0 ELSE DigitVal(digit[1])
        p  == ReplaceUColon(letters)
        vp == vowel_pos(p)
        q  == IF vp >= 1 /\ p[vp] \in BaseVowels /\ t >= 0 /\ t <= 4
              THEN [p EXCEPT ![vp] = tone_map(p[vp], t)]
              ELSE p
    IN  <<"[">> \o q \o <<"]">>

RECURSIVE LettersEnd(_, _)
\* end of the run [a-z]+ starting at i (i - 1 when there is none)
LettersEnd(text, i) ==
    IF i <= Len(text) /\ text[i] \in Letters THEN LettersEnd(text, i + 1)
    ELSE i - 1

\* r'\[([a-z]+)(\d?)\]' tried at position i: the position of the closing
\* bracket, 0 when there is no match at i
MatchAt(text, i) ==
    IF text[i] # "[" THEN 0
    ELSE LET le == LettersEnd(text, i + 1)
             de == IF le + 1 <= Len(text) /\ text[le + 1] \in Digits
                   THEN le + 1 ELSE le
         IN  IF le >= i + 1 /\ de + 1 <= Len(text) /\ text[de + 1] = "]"
             THEN de + 1 ELSE 0

RECURSIVE SubFrom(_, _)
\* pattern.sub(convert_numbered_pinyin, translation) from position i on
SubFrom(text, i) ==
    IF i > Len(text) THEN <<>>
    ELSE LET e == MatchAt(text, i)
         IN  IF e = 0 THEN <<text[i]>> \o SubFrom(text, i + 1)
             ELSE LET le == LettersEnd(text, i + 1)
                  IN  convert_numbered_pinyin(
                          SubSeq(text, i + 1, le), SubSeq(text, le + 1, e - 1))
                      \o SubFrom(text, e + 1)

convert_translation_pinyin(translation) == SubFrom(translation, 1)

-----------------------------------------------------------------------------
(* get_translation.py: the CC-CEDICT index                                 *)

NoneValue == [ok |-> FALSE, trad |-> <<>>, simp |-> <<>>, pinyin |-> <<>>, trs |-> <<>>]

\* the loop over trans_part.split('/')[1:-1] and the loop building trs
Translations(trans_part) ==
    LET segs == Slice1m1(SplitOn(trans_part, {"/"}, -1))
        kept == SelectSeq(segs, LAMBDA t : Strip(t) # <<>>)
    IN  Flatten(Map(LAMBDA t : convert_translation_pinyin(Strip(t)) \o <<"nl">>, kept))

parse_cc_cedict_line(line) ==
    IF (line # <<>> /\ line[1] = "#") \/ Strip(line) = <<>> THEN NoneValue
    ELSE LET parts == SplitOn(line, {" "}, 3)
         IN  IF Len(parts) < 4 THEN NoneValue
             ELSE [ok     |-> TRUE,
                   trad   |-> parts[1],
                   simp   |-> parts[2],
                   pinyin |-> Strip(Slice1m1(parts[3])),
                   trs    |-> Translations(parts[4])]

\* trans_dict[key] = translations
InsertExact(d, key, translations) ==
    [k \in DOMAIN d \cup {key} |-> IF k = key THEN translations ELSE d[k]]

\* mutant of InsertNoTone: the fallback key is written unconditionally
InsertNoToneOverwriting(d, key_no_tone, translations) ==
    InsertExact(d, key_no_tone, translations)
\* if key_no_tone not in trans_dict: trans_dict[key_no_tone] = translations
InsertNoTone(d, key_no_tone, translations) ==
    IF key_no_tone \in DOMAIN d THEN d
    ELSE InsertExact(d, key_no_tone, translations)

\* the body of "for word in [trad, simp]"
InsertWord(d, word, pinyin, translations) ==
    IF word = <<>> THEN d
    ELSE InsertNoTone(InsertExact(d, <<word, pinyin>>, translations),
                      <<word, StripDigits(pinyin)>>, translations)

\* the body of "for line in f" of load_cc_cedict, after the line is parsed
LoadLine(d, pl) ==
    IF ~pl.ok THEN d
    ELSE InsertWord(InsertWord(d, pl.trad, pl.pinyin, pl.trs),
                    pl.simp, pl.pinyin, pl.trs)

get_translation(word, pinyin, d) ==
    LET pinyin_numeric == convert_tone_markers(pinyin)
        pinyin_clean   == StripDigits(pinyin_numeric)
    IN  IF <<word, pinyin_numeric>> \in DOMAIN d THEN d[<<word, pinyin_numeric>>]
        ELSE IF <<word, pinyin_clean>> \in DOMAIN d THEN d[<<word, pinyin_clean>>]
        ELSE <<>>

-----------------------------------------------------------------------------
(* Python values.  A dict is a function whose DOMAIN is the keys present.  *)
(* A value whose type the code tests is tagged: t is "str", "list",        *)
(* "dict" or "other" (None, a number), the fields of the other types empty.*)

PyStr(x)  == [t |-> "str",   s |-> x,    l |-> <<>>, d |-> <<>>]
PyList(x) == [t |-> "list",  s |-> <<>>, l |-> x,    d |-> <<>>]
PyDict(x) == [t |-> "dict",  s |-> <<>>, l |-> <<>>, d |-> x]
PyOther   == [t |-> "other", s |-> <<>>, l |-> <<>>, d |-> <<>>]

\* dict.get(k, default)
Get(dict, k, default) == IF k \in DOMAIN dict THEN dict[k] ELSE default

\* the unified output schema, and the two other outcomes of a normalizer
Meaning(i, original, translation) ==
    [pinyin |-> i, original |-> original, translation |-> translation]
Entry(word, lemma, pinyin, meaning) ==
    [kind |-> "entry", word |-> word, lemma |-> lemma, phonetic |-> <<>>,
     pinyin |-> pinyin, meaning |-> meaning]
NoneEntry ==
    [kind |-> "none", word |-> <<>>, lemma |-> <<>>, phonetic |-> <<>>,
     pinyin |-> <<>>, meaning |-> <<>>]
\* the call raised (TypeError) instead of returning
Raised ==
    [kind |-> "raise", word |-> <<>>, lemma |-> <<>>, phonetic |-> <<>>,
     pinyin |-> <<>>, meaning |-> <<>>]

\* PINYIN_PATTERN = ^[a-z + marked vowels]+$ ; "$" also matches before a
\* final line feed
validate_pinyin(py) ==
    LET core == IF py # <<>> /\ py[Len(py)] = "nl"
                THEN SubSeq(py, 1, Len(py) - 1) ELSE py
    IN  core # <<>> /\ \A i \in 1..Len(core) : core[i] \in Letters \cup Marked

\* re.sub(r'[\d\s]', '', py)
CleanSyllable(py) == SelectSeq(py, LAMBDA c : c \notin Digits \cup Whitespace)

\* [exp["content"] for exp in exps if "content" in exp and exp["content"]]
NonEmptyContents(exps) ==
    Map(LAMBDA e : e.content,
        SelectSeq(exps, LAMBDA e : "content" \in DOMAIN e /\ e.content # <<>>))

\* [exp["content"] for exp in exps if "content" in exp]
AllContents(exps) ==
    Map(LAMBDA e : e.content, SelectSeq(exps, LAMBDA e : "content" \in DOMAIN e))

\* [py for py in char_data.get("pinyin", []) if isinstance(py, str)]
StrPinyins(char_data) ==
    Map(LAMBDA e : e.s, SelectSeq(Get(char_data, "pinyin", <<>>), LAMBDA e : e.t = "str"))

-----------------------------------------------------------------------------
(* converte_dict.py: the permissive normalizers                            *)

\* try: result["pinyin"].index(p) / except ValueError: len(result["pinyin"])
\* (indices are 0-based, as in the code)
ResolveIndex(pinyins, p) ==
    IF IndexOf(pinyins, p) > 0 THEN IndexOf(pinyins, p) - 1 ELSE Len(pinyins)

\* mutant of ResolveAppend: the slot is appended even when p is present
AlwaysAppend(pinyins, p) == Append(pinyins, p)
\* ... and in the except branch result["pinyin"].append(p)
ResolveAppend(pinyins, p) ==
    IF IndexOf(pinyins, p) > 0 THEN pinyins ELSE Append(pinyins, p)

RECURSIVE conv_pronunciations(_, _, _)
\* "for pron in detail_data['pronunciations']", res = [pinyin, meaning]
conv_pronunciations(prons, i, res) ==
    IF i > Len(prons) THEN res
    ELSE IF "pinyin" \notin DOMAIN prons[i] THEN conv_pronunciations(prons, i + 1, res)
    ELSE conv_pronunciations(prons, i + 1,
            [pinyin  |-> ResolveAppend(res.pinyin, prons[i].pinyin),
             meaning |-> Append(res.meaning,
                            Meaning(ResolveIndex(res.pinyin, prons[i].pinyin),
                                    JoinWith(<<"nl">>,
                                        NonEmptyContents(Get(prons[i], "explanations", <<>>))),
                                    <<>>))])

\* mutant of EnsureMeanings: no placeholder is synthesized
NoPlaceholders(pinyins, i, meaning) == meaning

RECURSIVE EnsureMeanings(_, _, _)
\* "for i, py in enumerate(result['pinyin'])": a placeholder for slot i
\* when no meaning has pinyin == i
EnsureMeanings(pinyins, i, meaning) ==
    IF i >= Len(pinyins) THEN meaning
    ELSE IF \E k \in 1..Len(meaning) : meaning[k].pinyin = i
         THEN EnsureMeanings(pinyins, i + 1, meaning)
         ELSE EnsureMeanings(pinyins, i + 1, Append(meaning, Meaning(i, <<>>, <<>>)))

conv_process_character(char_data, detail_data) ==
    LET start == [pinyin |-> StrPinyins(char_data), meaning |-> <<>>]
        res   == IF "pronunciations" \in DOMAIN detail_data
                 THEN conv_pronunciations(detail_data.pronunciations, 1, start)
                 ELSE start
    IN  Entry(Get(char_data, "char", <<>>), Get(char_data, "traditional", <<>>),
              res.pinyin, EnsureMeanings(res.pinyin, 0, res.meaning))

\* word_data["pinyin"] if it is a list, else word_data["pinyin"].split()
PinyinSegments(word_data) ==
    IF word_data.pinyin.t = "list" THEN word_data.pinyin.l
    ELSE SplitWs(word_data.pinyin.s)

\* valid_pinyins = [re.sub(r'[\d\s]', '', py) for py in pinyin_segments]
CleanedSyllables(segs) == Map(CleanSyllable, segs)

conv_process_word(word_data) ==
    IF "word" \notin DOMAIN word_data \/ "pinyin" \notin DOMAIN word_data THEN NoneEntry
    ELSE IF Len(word_data.word) # Len(PinyinSegments(word_data)) THEN NoneEntry
    ELSE LET direct == Get(word_data, "explanation", <<>>)
             explanation ==
                 IF direct = <<>> /\ "explanations" \in DOMAIN word_data
                 THEN JoinWith(<<"nl">>, NonEmptyContents(word_data.explanations))
                 ELSE direct
         IN  Entry(word_data.word, <<>>, CleanedSyllables(PinyinSegments(word_data)),
                   <<Meaning(0, explanation, <<>>)>>)

\* the labels of process_idiom
LabelExample == <<"zhLi", "zhJu", "zh:">>
LabelBookOpen == <<"zh(", "zhChu", "zhChu4", "zh:">>
LabelBookClose == <<"zh)">>
LabelSimilar == <<"zhJin", "zhYi", "zhCi", "zh:">>
LabelOpposite == <<"zhFan", "zhYi", "zhCi", "zh:">>
Dun == <<"zhDun">>

\* the loop over re.split(r'[zh,\s]', raw_pinyin)
IdiomSegments(raw_pinyin) ==
    LET pieces  == SplitOn(raw_pinyin, {"zh,"} \cup Whitespace, -1)
        cleaned == Map(LAMBDA t : StripDigits(Strip(t)), pieces)
    IN  SelectSeq(cleaned, LAMBDA t : t # <<>>)

\* 1. if idiom_data.get("explanation")
PartExplanation(d) ==
    IF Get(d, "explanation", <<>>) # <<>> THEN <<d.explanation>> ELSE <<>>
\* 2. the story, a list (extend) or a non-empty string (append)
PartStory(d) ==
    IF "story" \notin DOMAIN d THEN <<>>
    ELSE IF d.story.t = "list" THEN d.story.l
    ELSE IF d.story.s # <<>> THEN <<d.story.s>>
    ELSE <<>>
\* 3. the example, a dict with text and book or a plain string
ExampleText(ex) ==
    IF ex.t = "dict"
    THEN Get(ex.d, "text", <<>>)
         \o (IF "book" \in DOMAIN ex.d
             THEN LabelBookOpen \o ex.d.book \o LabelBookClose ELSE <<>>)
    ELSE ex.s
PartExample(d) ==
    IF "example" \in DOMAIN d /\ ExampleText(d.example) # <<>>
    THEN <<LabelExample \o ExampleText(d.example)>> ELSE <<>>
\* 4. similar and opposite
PartSimilar(d) ==
    IF Get(d, "similar", <<>>) # <<>>
    THEN <<LabelSimilar \o JoinWith(Dun, d.similar)>> ELSE <<>>
PartOpposite(d) ==
    IF Get(d, "opposite", <<>>) # <<>>
    THEN <<LabelOpposite \o JoinWith(Dun, d.opposite)>> ELSE <<>>

conv_process_idiom(idiom_data) ==
    IF "word" \notin DOMAIN idiom_data \/ "pinyin" \notin DOMAIN idiom_data THEN NoneEntry
    \* re.split on a list raises TypeError
    ELSE IF idiom_data.pinyin.t # "str" THEN Raised
    ELSE LET explanations == PartExplanation(idiom_data) \o PartStory(idiom_data)
                             \o PartExample(idiom_data) \o PartSimilar(idiom_data)
                             \o PartOpposite(idiom_data)
         IN  Entry(idiom_data.word, <<>>, IdiomSegments(idiom_data.pinyin.s),
                   <<Meaning(0, JoinWith(<<"nl">>, explanations), <<>>)>>)

-----------------------------------------------------------------------------
(* get_dict.py: the strict normalizers                                     *)

RECURSIVE dict_pronunciations(_, _, _, _)
\* "for pron in detail_data['pronunciations']": a pronunciation whose
\* pinyin is not in the list is skipped, one meaning per explanation
dict_pronunciations(prons, i, pinyins, meaning) ==
    IF i > Len(prons) THEN meaning
    ELSE IF "pinyin" \notin DOMAIN prons[i] \/ IndexOf(pinyins, prons[i].pinyin) = 0
         THEN dict_pronunciations(prons, i + 1, pinyins, meaning)
         ELSE LET cs == AllContents(Get(prons[i], "explanations", <<>>))
              IN  dict_pronunciations(prons, i + 1, pinyins,
                      meaning \o Map(LAMBDA c :
                          Meaning(IndexOf(pinyins, prons[i].pinyin) - 1, c, <<>>), cs))

dict_process_character(char_data, detail_data) ==
    IF "char" \notin DOMAIN char_data THEN NoneEntry
    ELSE LET raw == Get(char_data, "pinyin", <<>>)
         IN  \* validate_pinyin(py) on a non-str raises TypeError
             IF \E i \in 1..Len(raw) : raw[i].t # "str" THEN Raised
             ELSE LET pinyins == SelectSeq(Map(LAMBDA e : e.s, raw), validate_pinyin)
                      meaning == IF "pronunciations" \in DOMAIN detail_data
                                 THEN dict_pronunciations(detail_data.pronunciations,
                                                          1, pinyins, <<>>)
                                 ELSE <<>>
                  IN  IF pinyins # <<>> /\ meaning # <<>>
                      THEN Entry(char_data.char, Get(char_data, "traditional", <<>>),
                                 pinyins, meaning)
                      ELSE NoneEntry

\* the loop "for py in pinyin_segments": a cleaned syllable is kept when valid
ValidSyllables(segs) == SelectSeq(CleanedSyllables(segs), validate_pinyin)

dict_process_word(word_data) ==
    IF "word" \notin DOMAIN word_data \/ "pinyin" \notin DOMAIN word_data THEN NoneEntry
    ELSE IF Len(word_data.word) # Len(PinyinSegments(word_data)) THEN NoneEntry
    ELSE IF ValidSyllables(PinyinSegments(word_data)) = <<>> THEN NoneEntry
    ELSE LET direct == Get(word_data, "explanation", <<>>)
             explanation ==
                 IF direct = <<>> /\ "explanations" \in DOMAIN word_data
                 THEN JoinWith(<<";", " ">>, AllContents(word_data.explanations))
                 ELSE direct
         IN  IF explanation = <<>> THEN NoneEntry
             ELSE Entry(word_data.word, <<>>, ValidSyllables(PinyinSegments(word_data)),
                        <<Meaning(0, explanation, <<>>)>>)

-----------------------------------------------------------------------------
(* get_translation.py: the normalizers that attach translations            *)

RECURSIVE trans_pronunciations(_, _, _, _, _)
\* "for pron in detail_data.get('pronunciations', [])": the meaning's index
\* is len(result["meaning"])
trans_pronunciations(prons, i, word, d, meaning) ==
    IF i > Len(prons) THEN meaning
    ELSE IF "pinyin" \notin DOMAIN prons[i]
         THEN trans_pronunciations(prons, i + 1, word, d, meaning)
         ELSE trans_pronunciations(prons, i + 1, word, d,
                  Append(meaning,
                         Meaning(Len(meaning),
                                 JoinWith(<<"nl">>,
                                     NonEmptyContents(Get(prons[i], "explanations", <<>>))),
                                 get_translation(word, prons[i].pinyin, d))))

trans_process_character(char_data, detail_data, d) ==
    Entry(Get(char_data, "char", <<>>), Get(char_data, "traditional", <<>>),
          StrPinyins(char_data),
          trans_pronunciations(Get(detail_data, "pronunciations", <<>>), 1,
                               Get(char_data, "char", <<>>), d, <<>>))

\* translation_dict.get(word_data["word"], ""): the keys are (word, pinyin)
\* tuples and a str equals no tuple, so the default comes back
GetByWord(d, word) == <<>>

trans_process_word(word_data, d) ==
    IF "word" \notin DOMAIN word_data \/ "pinyin" \notin DOMAIN word_data THEN NoneEntry
    ELSE LET direct == Get(word_data, "explanation", <<>>)
             original == IF direct # <<>> THEN direct
                         ELSE JoinWith(<<";", " ">>,
                                  AllContents(Get(word_data, "explanations", <<>>)))
         IN  Entry(word_data.word, <<>>, CleanedSyllables(PinyinSegments(word_data)),
                   <<Meaning(0, original, GetByWord(d, word_data.word))>>)

-----------------------------------------------------------------------------
(* converte_dict.py: the tolerant record loader                            *)

\* a parsed JSON value: its type, whether Python holds it false, its text
JsonValue(t, falsy, text) == [t |-> t, falsy |-> falsy, text |-> text]
NoneJson == JsonValue("none", TRUE, <<>>)
DecodeError == JsonValue("error", TRUE, <<>>)
ObjectA == <<"{", "dq", "a", "dq", ":", "1", "}">>

\* json.loads on the texts the model offers (white space around a value is
\* allowed); any other text raises JSONDecodeError
json_loads(text) ==
    LET t == Strip(text)
    IN  CASE t = ObjectA           -> JsonValue("dict", FALSE, t)
          [] t = <<"{", "}">>      -> JsonValue("dict", TRUE, t)
          [] t = <<"[", "]">>      -> JsonValue("list", TRUE, t)
          [] t = <<"[", "1", "]">> -> JsonValue("list", FALSE, t)
          [] t = <<"0">>           -> JsonValue("int", TRUE, t)
          [] t = <<"1">>           -> JsonValue("int", FALSE, t)
          [] t = <<"dq", "s", "dq">> -> JsonValue("str", FALSE, t)
          [] t = <<"dq", "dq">>    -> JsonValue("str", TRUE, t)
          [] t = <<"n", "u", "l", "l">> -> NoneJson
          [] OTHER                 -> DecodeError

\* line.replace("'", '"')
ReplaceQuotes(line) == Map(LAMBDA c : IF c = "sq" THEN "dq" ELSE c, line)

clean_json_line(line) ==
    LET stripped == Strip(line)
        nocomma  == IF stripped # <<>> /\ stripped[Len(stripped)] = ","
                    THEN SubSeq(stripped, 1, Len(stripped) - 1) ELSE stripped
    IN  IF stripped = <<>> THEN NoneJson
        ELSE IF json_loads(nocomma) # DecodeError THEN json_loads(nocomma)
        ELSE IF json_loads(ReplaceQuotes(nocomma)) # DecodeError
             THEN json_loads(ReplaceQuotes(nocomma))
        ELSE NoneJson

\* "if parsed: data.append(parsed)"
AppendParsed(acc, parsed_line) ==
    IF ~parsed_line.falsy THEN Append(acc, parsed_line) ELSE acc

-----------------------------------------------------------------------------
(* generate_json_line.py: json_objects_to_lines                            *)

\* json.dumps(obj, ensure_ascii=False): the one-line text of record obj
json_dumps(obj) == <<"json", obj>>

\* mutant of NeedNewFile: a shard is closed one line late
NeedNewFileLate(lines, per_file) == lines % (per_file + 1) = 0
\* if line_count % max_lines_per_file == 0
NeedNewFile(lines, per_file) == lines % per_file = 0

\* open(output_file, 'w'): the file exists and is empty
OpenForWrite(files, n) == [k \in DOMAIN files \cup {n} |-> IF k = n THEN <<>> ELSE files[k]]
\* current_file.write(line + '\n')
WriteLine(files, n, line) == [files EXCEPT ![n] = Append(@, line)]

-----------------------------------------------------------------------------
(* converte_dict.py and get_dict.py: convert_data                          *)

RECURSIVE DetailMapFrom(_, _, _)
DetailMapFrom(char_detail, i, m) ==
    IF i > Len(char_detail) THEN m
    ELSE IF "char" \in DOMAIN char_detail[i]
         THEN DetailMapFrom(char_detail, i + 1,
                            InsertExact(m, char_detail[i].char, char_detail[i]))
         ELSE DetailMapFrom(char_detail, i + 1, m)

\* "for item in char_detail: if 'char' in item: char_detail_map[...] = item"
char_detail_map(char_detail) == DetailMapFrom(char_detail, 1, <<>>)

\* char_base[:max_items] if max_items else char_base
CappedChars(char_base, cap) ==
    IF cap # 0 /\ cap < Len(char_base) THEN SubSeq(char_base, 1, cap) ELSE char_base

\* the body of the character loop: converted_data after it; the default
\* detail is {}
ConvCharStep(c, m, out) ==
    Append(out, conv_process_character(c, Get(m, Get(c, "char", <<>>), <<>>)))

DictCharStep(c, m, out) ==
    IF "char" \notin DOMAIN c THEN out
    ELSE IF c.char \notin DOMAIN m \/ m[c.char] = <<>> THEN out
    ELSE IF dict_process_character(c, m[c.char]).kind = "entry"
         THEN Append(out, dict_process_character(c, m[c.char]))
         ELSE out

\* the list the word loop runs over
WordLoopItems(v, ld) ==
    IF v = "get_dict" THEN ld.word_data \o ld.idiom_data ELSE ld.word_data

\* process_word of the running script
ProcessWordOf(v, w) ==
    IF v = "get_dict" THEN dict_process_word(w) ELSE conv_process_word(w)

\* "if max_items and len(converted_data) >= max_items: break"
CapReached(cap, out) == cap # 0 /\ Len(out) >= cap

-----------------------------------------------------------------------------
(* Bounds and input alphabets                                              *)

MaxSylLen == 3
SylLetters == {"h", "l", "a", "e", "i", "o", "u", "v"}
ToneDigits == {"1", "2", "3", "4", "5"}

SeqsUpTo(S, n) == UNION {[1..k -> S] : k \in 0..n}
Syllables == SeqsUpTo(SylLetters, MaxSylLen) \ {<<>>}

MaxLines == 3
CedictLine(t, s, py, tr) ==
    t \o <<" ">> \o s \o <<" ", "[">> \o py \o <<"]", " ">> \o tr \o <<"nl">>
CedictLines ==
    { CedictLine(<<"zh1">>, <<"zh1">>, <<"h", "a", "o", "3">>, <<"/", "a", "/">>),
      CedictLine(<<"zh1">>, <<"zh1">>, <<"h", "a", "o", "4">>, <<"/", "b", "/">>),
      CedictLine(<<"zh1">>, <<"zh1">>, <<"h", "a", "o">>, <<"/", "c", "/">>),
      CedictLine(<<"zh2">>, <<"zh1">>, <<"h", "a", "o", "3">>,
                 <<"/", "b", "/", " ", "[", "h", "a", "o", "3", "]", "/">>),
      CedictLine(<<"zh1", "zh2">>, <<"zh1", "zh2">>,
                 <<"n", "i", "3", " ", "h", "a", "o", "3">>, <<"/", "a", "/">>),
      <<"#", " ", "c", "nl">>,
      <<"nl">>,
      <<"zh1", " ", "zh1", "nl">> }
QueryWords == {<<"zh1">>, <<"zh2">>}
QueryPinyins == {<<"h", "a^3", "o">>, <<"h", "a^4", "o">>, <<"h", "a", "o">>,
                 <<"n", "i^3">>}

\* source records offered to the normalizers
MaxProns == 2
Hao3 == <<"h", "a^3", "o">>
Hao4 == <<"h", "a^4", "o">>
He1 == <<"h", "e^1">>
EmptyDict == <<>>
Opt(name, vals) == {EmptyDict} \cup {name :> v : v \in vals}

BasePinyinLists ==
    { <<>>, <<PyStr(Hao3)>>, <<PyStr(Hao3), PyStr(Hao4)>>, <<PyStr(Hao3), PyStr(Hao3)>>,
      <<PyStr(Hao3), PyOther>>, <<PyStr(<<"H">>)>> }
CharBases ==
    { c @@ t @@ p : c \in Opt("char", {<<"zh1">>}),
                    t \in Opt("traditional", {<<"zh2">>}),
                    p \in Opt("pinyin", BasePinyinLists) }
Pronunciations ==
    { ("pinyin" :> Hao3) @@ ("explanations" :> <<[content |-> <<"x">>], [content |-> <<"y">>]>>),
      ("pinyin" :> Hao4) @@ ("explanations" :> <<[content |-> <<>>], EmptyDict>>),
      "explanations" :> <<[content |-> <<"x">>]>>,
      "pinyin" :> He1 }
CharDetails ==
    {EmptyDict} \cup
    { ("char" :> <<"zh1">>) @@ ("pronunciations" :> ps) :
      ps \in SeqsUpTo(Pronunciations, MaxProns) }

WordPinyins ==
    { PyStr(<<>>),
      PyStr(<<"b", "a", "4", " ", "b", "a", "5">>),
      PyStr(<<"n", "i", "3", " ", "H", "a", "o", "3">>),
      PyStr(<<"b", "a", "4">>),
      PyList(<<>>),
      PyList(<<<<"b", "a", "4">>, <<"b", "a", "5">>>>),
      PyList(<<<<"n", "i", "3">>, <<"H", "a", "o", "3">>>>),
      PyList(<<<<"3">>, <<"n", "i", "3">>>>),
      PyList(<<<<"n", "i^3">>>>) }
WordRecords ==
    { w @@ p @@ e @@ es :
      w  \in Opt("word", {<<>>, <<"zh1">>, <<"zh1", "zh1">>}),
      p  \in Opt("pinyin", WordPinyins),
      e  \in Opt("explanation", {<<>>, <<"E">>}),
      es \in Opt("explanations", { <<[content |-> <<"x">>], [content |-> <<"y">>]>>,
                                   <<[content |-> <<>>], EmptyDict>> }) }

IdiomRecords ==
    { w @@ p @@ e @@ st @@ ex @@ si @@ op :
      w  \in Opt("word", {<<"zh1", "zh2">>}),
      p  \in Opt("pinyin", { PyStr(<<"y", "i", "4", " ", "f", "a", "n", "1">>),
                             PyStr(<<"y", "i", "4", "zh,", "f", "a", "n", "1">>),
                             PyStr(<<>>),
                             PyList(<<<<"y", "i", "4">>, <<"f", "a", "n", "1">>>>) }),
      e  \in Opt("explanation", {<<>>, <<"E">>}),
      st \in Opt("story", {PyStr(<<"S">>), PyStr(<<>>), PyList(<<<<"S">>, <<"T">>>>)}),
      ex \in Opt("example", { PyStr(<<"X">>),
                              PyDict([text |-> <<"X">>, book |-> <<"B">>]),
                              PyDict([book |-> <<"B">>]),
                              PyDict(EmptyDict) }),
      si \in Opt("similar", {<<<<"a">>>>, <<<<"a">>, <<"b">>>>}),
      op \in Opt("opposite", {<<<<"c">>>>}) }

\* the index the translating pipeline has loaded before it normalizes
SampleFile ==
    << CedictLine(<<"zh1">>, <<"zh1">>, <<"h", "a", "o", "3">>, <<"/", "a", "/">>),
       CedictLine(<<"zh1">>, <<"zh1">>, <<"h", "a", "o", "4">>, <<"/", "b", "/">>) >>
SampleDict ==
    LoadLine(LoadLine(<<>>, parse_cc_cedict_line(SampleFile[1])),
             parse_cc_cedict_line(SampleFile[2]))

\* lines offered to load_json_lines
MaxJsonLines == 2
JsonLines ==
    { ObjectA \o <<"nl">>,
      ObjectA \o <<",", "nl">>,
      <<" ">> \o ObjectA \o <<" ", ",", " ", "nl">>,
      <<"{", "sq", "a", "sq", ":", "1", "}", ",", "nl">>,
      <<"{", "}", "nl">>,
      <<"[", "]", ",", "nl">>,
      <<"[", "1", "]", "nl">>,
      <<"0", "nl">>,
      <<"1", "nl">>,
      <<"dq", "s", "dq", "nl">>,
      <<"sq", "sq", "nl">>,
      <<"n", "u", "l", "l", "nl">>,
      <<"{", "a", "}", "nl">>,
      <<"nl">> }

\* inputs of json_objects_to_lines: a missing file, a file that is not
\* JSON, a JSON scalar, one object, an array of records 1..n
MaxRecords == 12
MaxThreshold == 5
ShardInputs ==
    { [kind |-> k, items |-> <<>>] : k \in {"missing", "invalid", "scalar"} }
    \cup { [kind |-> "dict", items |-> <<1>>] }
    \cup { [kind |-> "list", items |-> xs] :
           xs \in {<<>>} \cup {[j \in 1..n |-> j] : n \in 1..MaxRecords} }

\* inputs of convert_data: the cap and the loaded lists
MaxCap == 2
MaxSourceLen == 2
Ba4 == <<"b", "a", "4">>
ConvertChars ==
    { ("char" :> <<"zh1">>) @@ ("pinyin" :> <<PyStr(Hao3)>>),
      "pinyin" :> <<PyStr(Hao4)>> }
ConvertDetails ==
    { <<>>,
      << ("char" :> <<"zh1">>) @@
         ("pronunciations" :>
            << ("pinyin" :> Hao3) @@ ("explanations" :> <<[content |-> <<"x">>]>>) >>) >> }
ConvertWords ==
    { ("word" :> <<"zh1">>) @@ ("pinyin" :> PyStr(Ba4)) @@ ("explanation" :> <<"E">>),
      ("word" :> <<"zh1", "zh1">>) @@ ("pinyin" :> PyStr(Ba4)) @@ ("explanation" :> <<"E">>) }
ConvertIdioms ==
    { ("word" :> <<"zh1", "zh2">>) @@ ("pinyin" :> PyStr(Ba4 \o <<" ">> \o Ba4))
      @@ ("explanation" :> <<"E">>) }
ConvertLoads ==
    { [char_base |-> cb, char_detail |-> cd, word_data |-> wd, idiom_data |-> idm] :
      cb \in SeqsUpTo(ConvertChars, MaxSourceLen), cd \in ConvertDetails,
      wd \in SeqsUpTo(ConvertWords, MaxSourceLen), idm \in SeqsUpTo(ConvertIdioms, 1) }

vars == <<pc, syl, tone, dia, num, dia2, cedict, parsed, trans_dict, query, result,
          norm, rec, char, detail, entry, json_lines, data,
          sh_input, max_lines, i_done, file_count, line_count, current_file, fs,
          variant, max_items, loaded, cv_i, converted_data>>

IdlePinyin ==
    /\ syl = <<>> /\ tone = "0" /\ dia = <<>> /\ num = <<>> /\ dia2 = <<>>
IdleIndex ==
    /\ cedict = <<>> /\ parsed = <<>> /\ trans_dict = <<>>
    /\ query = <<>> /\ result = <<>>

IdleEntries ==
    /\ norm = "" /\ rec = <<>> /\ char = <<>> /\ detail = <<>> /\ entry = NoneEntry

IdleLoader ==
    /\ json_lines = <<>> /\ data = <<>>
IdleShard ==
    /\ sh_input = [kind |-> "none", items |-> <<>>] /\ max_lines = 1 /\ i_done = 0
    /\ file_count = 1 /\ line_count = 0 /\ current_file = 0 /\ fs = <<>>
IdleConvert ==
    /\ variant = "none" /\ max_items = 0 /\ cv_i = 0 /\ converted_data = <<>>
    /\ loaded = [char_base |-> <<>>, char_detail |-> <<>>,
                 word_data |-> <<>>, idiom_data |-> <<>>]

pinyinVars == <<syl, tone, dia, num, dia2>>
shardVars == <<sh_input, max_lines, i_done, file_count, line_count, current_file, fs>>
convertVars == <<variant, max_items, loaded, cv_i, converted_data>>
otherVars == <<json_lines, data, shardVars, convertVars>>
entryVars == <<norm, rec, char, detail, entry>>
indexVars == <<cedict, parsed, trans_dict, query, result>>

-----------------------------------------------------------------------------
(* Pinyin conversions applied in turn to one numeric syllable              *)

InitPinyin ==
    /\ pc = "numeric"
    /\ syl \in Syllables
    /\ tone \in ToneDigits
    /\ dia = <<>> /\ num = <<>> /\ dia2 = <<>>
    /\ IdleIndex
    /\ IdleEntries
    /\ IdleLoader /\ IdleShard /\ IdleConvert

\* numeric -> diacritic, as the translation rewriting applies it to "[syl tone]"
ToDiacritic ==
    /\ pc = "numeric"
    /\ dia' = convert_translation_pinyin(<<"[">> \o syl \o <<tone>> \o <<"]">>)
    /\ pc' = "diacritic"
    /\ UNCHANGED <<syl, tone, num, dia2, indexVars, entryVars, otherVars>>

\* diacritic -> numeric
ToNumeric ==
    /\ pc = "diacritic"
    /\ num' = convert_tone_markers(dia)
    /\ pc' = "renumbered"
    /\ UNCHANGED <<syl, tone, dia, dia2, indexVars, entryVars, otherVars>>

\* numeric -> diacritic again
BackToDiacritic ==
    /\ pc = "renumbered"
    /\ dia2' = convert_translation_pinyin(num)
    /\ pc' = "roundtrip"
    /\ UNCHANGED <<syl, tone, dia, num, indexVars, entryVars, otherVars>>

NextPinyin == ToDiacritic \/ ToNumeric \/ BackToDiacritic

SpecPinyin == InitPinyin /\ [][NextPinyin]_vars

-----------------------------------------------------------------------------
(* load_cc_cedict over a file, then get_translation calls                  *)

InitIndex ==
    /\ pc = "load"
    /\ IdleIndex
    /\ IdlePinyin
    /\ IdleEntries
    /\ IdleLoader /\ IdleShard /\ IdleConvert

\* one iteration of "for line in f"
ReadLine ==
    /\ pc = "load"
    /\ Len(cedict) < MaxLines
    /\ \E line \in CedictLines :
          LET pl == parse_cc_cedict_line(line)
          IN  /\ cedict' = Append(cedict, line)
              /\ parsed' = Append(parsed, pl)
              /\ trans_dict' = LoadLine(trans_dict, pl)
    /\ UNCHANGED <<pc, query, result, pinyinVars, entryVars, otherVars>>

\* end of file: load_cc_cedict returns trans_dict
EndOfFile ==
    /\ pc = "load"
    /\ pc' = "loaded"
    /\ UNCHANGED <<indexVars, pinyinVars, entryVars, otherVars>>

Lookup ==
    /\ pc = "loaded"
    /\ \E w \in QueryWords, p \in QueryPinyins :
          /\ query' = <<w, p>>
          /\ result' = get_translation(w, p, trans_dict)
    /\ UNCHANGED <<pc, cedict, parsed, trans_dict, pinyinVars, entryVars, otherVars>>

NextIndex == ReadLine \/ EndOfFile \/ Lookup

SpecIndex == InitIndex /\ [][NextIndex]_vars

-----------------------------------------------------------------------------
(* One call of an entry normalizer on a source record                      *)

InitEntries ==
    /\ pc = "ready"
    /\ IdleEntries
    /\ IdlePinyin
    /\ cedict = SampleFile
    /\ parsed = [i \in 1..Len(SampleFile) |-> parse_cc_cedict_line(SampleFile[i])]
    /\ trans_dict = SampleDict
    /\ query = <<>> /\ result = <<>>
    /\ IdleLoader /\ IdleShard /\ IdleConvert

\* the call returns (or raises): e is its outcome
NormalizedCharacter(name, c, dt, e) ==
    /\ pc' = "normalized"
    /\ norm' = name /\ char' = c /\ detail' = dt /\ entry' = e
    /\ UNCHANGED <<rec, pinyinVars, indexVars, otherVars>>
NormalizedWord(name, r, e) ==
    /\ pc' = "normalized"
    /\ norm' = name /\ rec' = r /\ entry' = e
    /\ UNCHANGED <<char, detail, pinyinVars, indexVars, otherVars>>

ConvCharacter ==
    /\ pc = "ready"
    /\ \E c \in CharBases, dt \in CharDetails :
          NormalizedCharacter("conv_process_character", c, dt,
                              conv_process_character(c, dt))

ConvWord ==
    /\ pc = "ready"
    /\ \E w \in WordRecords :
          NormalizedWord("conv_process_word", w, conv_process_word(w))

ConvIdiom ==
    /\ pc = "ready"
    /\ \E i \in IdiomRecords :
          NormalizedWord("conv_process_idiom", i, conv_process_idiom(i))

DictCharacter ==
    /\ pc = "ready"
    /\ \E c \in CharBases, dt \in CharDetails :
          NormalizedCharacter("dict_process_character", c, dt,
                              dict_process_character(c, dt))

DictWord ==
    /\ pc = "ready"
    /\ \E w \in WordRecords :
          NormalizedWord("dict_process_word", w, dict_process_word(w))

TransCharacter ==
    /\ pc = "ready"
    /\ \E c \in CharBases, dt \in CharDetails :
          NormalizedCharacter("trans_process_character", c, dt,
                              trans_process_character(c, dt, trans_dict))

TransWord ==
    /\ pc = "ready"
    /\ \E w \in WordRecords :
          NormalizedWord("trans_process_word", w, trans_process_word(w, trans_dict))

NextEntries ==
    \/ ConvCharacter \/ ConvWord \/ ConvIdiom
    \/ DictCharacter \/ DictWord
    \/ TransCharacter \/ TransWord

SpecEntries == InitEntries /\ [][NextEntries]_vars

-----------------------------------------------------------------------------
(* load_json_lines over a file                                             *)

InitLoader ==
    /\ pc = "reading"
    /\ IdleLoader
    /\ IdlePinyin /\ IdleIndex /\ IdleEntries /\ IdleShard /\ IdleConvert

\* one iteration of "for line in f"
ReadJsonLine ==
    /\ pc = "reading"
    /\ Len(json_lines) < MaxJsonLines
    /\ \E line \in JsonLines :
          /\ json_lines' = Append(json_lines, line)
          /\ data' = AppendParsed(data, clean_json_line(line))
    /\ UNCHANGED <<pc, pinyinVars, indexVars, entryVars, convertVars, shardVars>>

\* end of file: load_json_lines returns data
EndOfJsonFile ==
    /\ pc = "reading"
    /\ pc' = "returned"
    /\ UNCHANGED <<json_lines, data, pinyinVars, indexVars, entryVars, convertVars, shardVars>>

NextLoader == ReadJsonLine \/ EndOfJsonFile

SpecLoader == InitLoader /\ [][NextLoader]_vars

-----------------------------------------------------------------------------
(* json_objects_to_lines on one input file                                 *)

InitShard ==
    /\ pc = "start"
    /\ sh_input \in ShardInputs
    /\ max_lines \in 1..MaxThreshold
    /\ i_done = 0 /\ file_count = 1 /\ line_count = 0 /\ current_file = 0 /\ fs = <<>>
    /\ IdleLoader /\ IdleConvert
    /\ IdlePinyin /\ IdleIndex /\ IdleEntries

\* FileNotFoundError, JSONDecodeError, or data that is neither dict nor list
LoadFails ==
    /\ pc = "start"
    /\ sh_input.kind \in {"missing", "invalid", "scalar"}
    /\ pc' = "done"
    /\ UNCHANGED <<data, json_lines, shardVars, pinyinVars, indexVars, entryVars, convertVars>>

\* json.load, and "if isinstance(data, dict): data = [data]"
LoadData ==
    /\ pc = "start"
    /\ sh_input.kind \in {"dict", "list"}
    /\ data' = sh_input.items
    /\ pc' = "loop"
    /\ UNCHANGED <<json_lines, shardVars, pinyinVars, indexVars, entryVars, convertVars>>

\* one iteration of "for i, obj in enumerate(data, 1)"
WriteRecord ==
    /\ pc = "loop"
    /\ i_done < Len(data)
    /\ LET obj    == data[i_done + 1]
           rotate == NeedNewFile(line_count, max_lines)
           target == IF rotate THEN file_count ELSE current_file
           opened == IF rotate THEN OpenForWrite(fs, file_count) ELSE fs
       IN  /\ current_file' = target
           /\ file_count' = IF rotate THEN file_count + 1 ELSE file_count
           /\ line_count' = (IF rotate THEN 0 ELSE line_count) + 1
           /\ fs' = WriteLine(opened, target, json_dumps(obj))
    /\ i_done' = i_done + 1
    /\ UNCHANGED <<pc, data, json_lines, sh_input, max_lines,
                   pinyinVars, indexVars, entryVars, convertVars>>

\* the loop is over: the last file is closed and the function returns
Finish ==
    /\ pc = "loop"
    /\ i_done = Len(data)
    /\ pc' = "done"
    /\ UNCHANGED <<data, json_lines, shardVars, pinyinVars, indexVars, entryVars, convertVars>>

NextShard == LoadFails \/ LoadData \/ WriteRecord \/ Finish

SpecShard == InitShard /\ [][NextShard]_vars

-----------------------------------------------------------------------------
(* convert_data of converte_dict.py and of get_dict.py                     *)

InitConvert ==
    /\ pc = "chars"
    /\ variant \in {"converte_dict", "get_dict"}
    /\ max_items \in 0..MaxCap
    /\ loaded \in ConvertLoads
    /\ cv_i = 0
    /\ converted_data = <<>>
    /\ IdleLoader /\ IdleShard
    /\ IdlePinyin /\ IdleIndex /\ IdleEntries

\* one iteration of the character loop
ConvertCharacter ==
    /\ pc = "chars"
    /\ cv_i < Len(CappedChars(loaded.char_base, max_items))
    /\ LET c == CappedChars(loaded.char_base, max_items)[cv_i + 1]
           m == char_detail_map(loaded.char_detail)
       IN  converted_data' = IF variant = "get_dict"
                             THEN DictCharStep(c, m, converted_data)
                             ELSE ConvCharStep(c, m, converted_data)
    /\ cv_i' = cv_i + 1
    /\ UNCHANGED <<pc, variant, max_items, loaded, json_lines, data, shardVars,
                   pinyinVars, indexVars, entryVars>>

\* the character loop is over
EndCharacters ==
    /\ pc = "chars"
    /\ cv_i = Len(CappedChars(loaded.char_base, max_items))
    /\ pc' = "words"
    /\ cv_i' = 0
    /\ UNCHANGED <<variant, max_items, loaded, converted_data, json_lines, data,
                   shardVars, pinyinVars, indexVars, entryVars>>

\* one iteration of the word loop, its break included
ConvertWordItem ==
    /\ pc = "words"
    /\ cv_i < Len(WordLoopItems(variant, loaded))
    /\ LET processed == ProcessWordOf(variant, WordLoopItems(variant, loaded)[cv_i + 1])
       IN  IF processed.kind = "entry"
           THEN /\ converted_data' = Append(converted_data, processed)
                /\ IF CapReached(max_items, Append(converted_data, processed))
                   THEN pc' = "words_done" /\ cv_i' = 0
                   ELSE pc' = pc /\ cv_i' = cv_i + 1
           ELSE /\ cv_i' = cv_i + 1
                /\ UNCHANGED <<pc, converted_data>>
    /\ UNCHANGED <<variant, max_items, loaded, json_lines, data, shardVars,
                   pinyinVars, indexVars, entryVars>>

\* the word loop ran out of items
EndWords ==
    /\ pc = "words"
    /\ cv_i = Len(WordLoopItems(variant, loaded))
    /\ pc' = "words_done"
    /\ cv_i' = 0
    /\ UNCHANGED <<variant, max_items, loaded, converted_data, json_lines, data,
                   shardVars, pinyinVars, indexVars, entryVars>>

\* converte_dict.py only: one iteration of the idiom loop
ConvertIdiomItem ==
    /\ pc \in {"words_done", "idioms"}
    /\ variant = "converte_dict"
    /\ cv_i < Len(loaded.idiom_data)
    /\ LET processed == conv_process_idiom(loaded.idiom_data[cv_i + 1])
       IN  converted_data' = IF processed.kind = "entry"
                             THEN Append(converted_data, processed)
                             ELSE converted_data
    /\ pc' = "idioms"
    /\ cv_i' = cv_i + 1
    /\ UNCHANGED <<variant, max_items, loaded, json_lines, data, shardVars,
                   pinyinVars, indexVars, entryVars>>

\* json.dump(converted_data, f)
SaveOutput ==
    /\ pc \in {"words_done", "idioms"}
    /\ variant = "get_dict" \/ cv_i = Len(loaded.idiom_data)
    /\ pc' = "saved"
    /\ UNCHANGED <<variant, max_items, loaded, cv_i, converted_data, json_lines, data,
                   shardVars, pinyinVars, indexVars, entryVars>>

NextConvert ==
    \/ ConvertCharacter \/ EndCharacters \/ ConvertWordItem \/ EndWords
    \/ ConvertIdiomItem \/ SaveOutput

SpecConvert == InitConvert /\ [][NextConvert]_vars

-----------------------------------------------------------------------------
(* Claims on the pinyin conversions                                        *)

ToneMarks == Marked \ {"v^0"}
FirstVowel(s) == FirstIn(s, BaseVowels)
\* the first vowel is a glide (i, u or v) and a later letter is a vowel
GlideThenVowel(s) ==
    /\ FirstVowel(s) > 0
    /\ s[FirstVowel(s)] \in {"i", "u", "v"}
    /\ \E j \in (FirstVowel(s)+1)..Len(s) : s[j] \in BaseVowels

\* C4: with a tone 1-4 the mark never lands on a medial glide that is
\* followed by another vowel: it lands on a later vowel (dia is bracketed,
\* so letter k of the syllable is dia[k+1]); and hao3 gives h a-caron o.
C4_MarkOnNucleus ==
    (pc # "numeric" /\ tone \in {"1", "2", "3", "4"}) =>
        /\ GlideThenVowel(syl) =>
               \E k \in (FirstVowel(syl)+1)..Len(syl) : dia[k+1] \in ToneMarks
        /\ (syl = <<"h", "a", "o">> /\ tone = "3") =>
               dia = <<"[", "h", "a^3", "o", "]">>

\* C5: diacritic(numeric(diacritic(s))) = diacritic(s) for tones 1-4
C5_RoundTrip ==
    (pc = "roundtrip" /\ tone \in {"1", "2", "3", "4"}) => dia2 = dia

-----------------------------------------------------------------------------
(* Claims on the translation index                                         *)

Parsed(i) == parsed[i]
\* the headwords line i inserts keys for
HeadsOf(i) == IF Parsed(i).ok THEN {Parsed(i).trad, Parsed(i).simp} \ {<<>>} ELSE {}
\* the lines whose own pinyin is exactly p, for headword w
ExactWriters(w, p) ==
    {i \in 1..Len(cedict) : w \in HeadsOf(i) /\ Parsed(i).pinyin = p}
\* the lines whose tone-stripped pinyin is p, for headword w
FallbackWriters(w, p) ==
    {i \in 1..Len(cedict) : w \in HeadsOf(i) /\ StripDigits(Parsed(i).pinyin) = p}
MinOf(S) == CHOOSE i \in S : \A j \in S : i <= j
MaxOf(S) == CHOOSE i \in S : \A j \in S : i >= j

TonelessForm(p) == Map(LAMBDA c : IF c \in Marked THEN MarkBase(c) ELSE c, p)
ToneOf(p) == LET marks == SelectSeq(p, LAMBDA c : c \in ToneMarks)
             IN  IF marks = <<>> THEN <<>> ELSE <<MarkTone(marks[1])>>
NumericForm(p) == TonelessForm(p) \o ToneOf(p)

\* C3: a lookup returns the blob under (word, numeric form) when present,
\* else the blob under (word, toneless form) when present, else "".
C3_LookupOrder ==
    query # <<>> =>
        LET w  == query[1]
            nk == <<w, NumericForm(query[2])>>
            tk == <<w, TonelessForm(query[2])>>
        IN  result = IF nk \in DOMAIN trans_dict THEN trans_dict[nk]
                     ELSE IF tk \in DOMAIN trans_dict THEN trans_dict[tk]
                     ELSE <<>>

-----------------------------------------------------------------------------
(* Claims on the entry normalizers                                         *)

NoDuplicate(q) == \A i, j \in 1..Len(q) : q[i] = q[j] => i = j

\* C1: in every entry any normalizer returns, every meaning's pinyin index
\* is a position of the entry's pinyin list: 0 <= m.pinyin < len(e.pinyin).
C1_MeaningIndexInRange ==
    entry.kind = "entry" =>
        \A k \in 1..Len(entry.meaning) :
            0 <= entry.meaning[k].pinyin /\ entry.meaning[k].pinyin < Len(entry.pinyin)

\* C6: the strict process_word returns an entry only when the syllables are
\* as many as the characters of word and every cleaned syllable is valid;
\* so an accepted entry has len(pinyin) = len(word).
C6_StrictWordAllOrNothing ==
    (norm = "dict_process_word" /\ entry.kind = "entry") =>
        /\ Len(PinyinSegments(rec)) = Len(rec.word)
        /\ \A i \in 1..Len(PinyinSegments(rec)) :
               validate_pinyin(CleanSyllable(PinyinSegments(rec)[i]))
        /\ Len(entry.pinyin) = Len(rec.word)

\* C7: for every idiom record with word and pinyin, process_idiom returns
\* an entry with exactly one meaning, at pinyin index 0, whose original is
\* the newline-join of the parts present, in the order explanation, story,
\* example, synonyms, antonyms (empty when none is present).
C7_IdiomOneMeaning ==
    (norm = "conv_process_idiom" /\ "word" \in DOMAIN rec /\ "pinyin" \in DOMAIN rec) =>
        /\ entry.kind = "entry"
        /\ Len(entry.meaning) = 1
        /\ entry.meaning[1].pinyin = 0
        /\ entry.meaning[1].original =
               JoinWith(<<"nl">>, PartExplanation(rec) \o PartStory(rec) \o PartExample(rec)
                                  \o PartSimilar(rec) \o PartOpposite(rec))
        /\ (DOMAIN rec \cap {"explanation", "story", "example", "similar", "opposite"} = {}
              => entry.meaning[1].original = <<>>)

DetailPinyins(dt) ==
    Map(LAMBDA q : q.pinyin,
        SelectSeq(Get(dt, "pronunciations", <<>>), LAMBDA q : "pinyin" \in DOMAIN q))

-----------------------------------------------------------------------------
(* Claims on the shard writer and the loader                               *)

CeilDiv(n, t) == (n + t - 1) \div t

\* C8: an array of N records with threshold T >= 1 gives ceil(N/T) files,
\* indexed 1..ceil(N/T); each but the last holds T lines, the last holds
\* N - T*(ceil(N/T)-1); the lines are the records in input order; N = 0
\* writes no file.
C8_Shards ==
    (pc = "done" /\ sh_input.kind = "list") =>
        LET n == Len(sh_input.items)
            k == CeilDiv(n, max_lines)
        IN  /\ DOMAIN fs = 1..k
            /\ \A j \in 1..(k - 1) : Len(fs[j]) = max_lines
            /\ k > 0 => Len(fs[k]) = n - max_lines * (k - 1)
            /\ Flatten(Map(LAMBDA j : fs[j], [j \in 1..k |-> j]))
                 = Map(json_dumps, sh_input.items)
            /\ n = 0 => DOMAIN fs = {}

\* 12 records with threshold 5: three files of 5, 5 and 2 lines
C8_Witness ==
    /\ pc = "done" /\ sh_input.kind = "list"
    /\ Len(sh_input.items) = 12 /\ max_lines = 5
    /\ DOMAIN fs = 1..3
    /\ Len(fs[1]) = 5 /\ Len(fs[2]) = 5 /\ Len(fs[3]) = 2

\* C9: load_json_lines returns, in file order, one record for every line
\* that clean_json_line parses, whatever the value (a string, a number, an
\* empty object or array), and nothing for the other lines.
C9_EveryParsedLineKept ==
    data = Map(clean_json_line,
               SelectSeq(json_lines, LAMBDA l : clean_json_line(l) # NoneJson))

-----------------------------------------------------------------------------
(* Claims on the character normalizers' slots                              *)

\* C11: in the permissive pipeline every position i of the pinyin list of
\* an entry returned by process_character has at least one meaning with
\* pinyin = i, whatever the base and the detail record.
C11_EverySlotHasMeaning ==
    (norm = "conv_process_character" /\ entry.kind = "entry") =>
        \A i \in 0..(Len(entry.pinyin) - 1) :
            \E k \in 1..Len(entry.meaning) : entry.meaning[k].pinyin = i

\* an empty detail object over a base record with two readings: both
\* slots got an empty placeholder meaning
C11_Witness ==
    /\ norm = "conv_process_character" /\ entry.kind = "entry"
    /\ detail = EmptyDict
    /\ Len(entry.pinyin) = 2
    /\ entry.meaning = <<Meaning(0, <<>>, <<>>), Meaning(1, <<>>, <<>>)>>

\* C12: in the character normalizer (permissive, and translation-attaching)
\* the meaning produced for the k-th pronunciation that has a pinyin p
\* carries an index i with entry.pinyin[i] = p.
C12_IndexResolvesToPinyin ==
    (norm \in {"conv_process_character", "trans_process_character"}
     /\ entry.kind = "entry") =>
        LET dp == DetailPinyins(detail)
        IN  /\ Len(entry.meaning) >= Len(dp)
            /\ \A k \in 1..Len(dp) :
                   /\ entry.meaning[k].pinyin < Len(entry.pinyin)
                   /\ entry.pinyin[entry.meaning[k].pinyin + 1] = dp[k]

-----------------------------------------------------------------------------
(* Claims on the CC-CEDICT line parser                                     *)

\* a line of the shape "traditional simplified [pinyin] /t1/.../tn/"
Qualifying(line) ==
    /\ line # <<>> /\ line[1] # "#"
    /\ FirstIn(line, {"["}) > 0 /\ FirstIn(line, {"]"}) > FirstIn(line, {"["})
\* the whole text between the brackets
BracketText(line) ==
    SubSeq(line, FirstIn(line, {"["}) + 1, FirstIn(line, {"]"}) - 1)
\* the translation field: what follows the closing bracket
TranslationField(line) == Strip(SubSeq(line, FirstIn(line, {"]"}) + 1, Len(line)))
\* the non-blank segments t1..tn, trimmed and tone-rewritten, one per line
\* of the blob
BlobOf(line) ==
    Flatten(Map(LAMBDA t : convert_translation_pinyin(Strip(t)) \o <<"nl">>,
                SelectSeq(Slice1m1(SplitOn(TranslationField(line), {"/"}, -1)),
                          LAMBDA t : Strip(t) # <<>>)))

\* C13: for every qualifying line, parse_cc_cedict_line returns as pinyin
\* the whole text between the brackets and as blob the tone-rewritten
\* segments t1..tn in order, and the keys of the index carry that pinyin.
C13_FullPinyinParsed ==
    \A i \in 1..Len(cedict) :
        Qualifying(cedict[i]) =>
            /\ Parsed(i).ok
            /\ Parsed(i).pinyin = BracketText(cedict[i])
            /\ Parsed(i).trs = BlobOf(cedict[i])
            /\ \A w \in HeadsOf(i) : <<w, BracketText(cedict[i])>> \in DOMAIN trans_dict

-----------------------------------------------------------------------------
(* Claims on convert_data                                                  *)

\* C14: with a cap max_items = M >= 1, when the word loop ends the output
\* holds at most M entries (characters plus words), also when the
\* characters alone already number M.
C14_CapAtWordLoopEnd ==
    (pc = "words_done" /\ max_items >= 1) => Len(converted_data) <= max_items

=============================================================================
